---- MODULE Spec2Model ----
(***************************************************************************)
(* A model of the SHG-FROG phase-retrieval engine                          *)
(* (src/shg_frog/model/phase_retrieval.py): the PhaseRetrieval object, its *)
(* setters, prepFROG, makeFROG, guessPulse, the generalized-projections    *)
(* loop of retrievePhase and the loop of ePIE_fun_FROG; and of the         *)
(* measurement buffer and the crop parameters of the FROG experiment       *)
(* (src/Python/Model/frog.py).                                             *)
(*                                                                         *)
(* Floating-point arrays are modelled by what the control flow can see of  *)
(* them.  A trace is a matrix of naturals; a normalised trace keeps the    *)
(* matrix and the peak it is divided by (the quotient is not-a-number when *)
(* the peak is 0).  A field is a record naming where it came from and      *)
(* whether it is finite and nonzero ("ok"), all zero, or not-a-number.     *)
(* The error G of a finite, nonzero reconstruction is an input of the      *)
(* model: every level 0..MaxG is drawn, and the draws of a run are kept in *)
(* Ghist.                                                                  *)
(*                                                                         *)
(* makeFROG and guessPulse are also followed entry by entry, on matrices   *)
(* of symbolic terms (products of samples, components of transforms), and  *)
(* single steps (the projection, the column update of ePIE_fun_FROG, the   *)
(* crop arithmetic) value by value, on whole numbers and quotients.        *)
(*                                                                         *)
(* Eleven specifications share the variables and the actions:              *)
(*   Spec      one caller that sets the object up and runs retrievePhase;  *)
(*   ConcSpec  the run with a second thread calling the setters;           *)
(*   PrepSpec  prepFROG on small raw images, pixel by pixel;               *)
(*   SelSpec   makeFROG, guessPulse and retrievePhase under every selector;*)
(*   MatSpec   makeFROG and guessPulse entry by entry, for N = 1..MaxN;    *)
(*   PieSpec   runs of retrievePhase and ePIE_fun_FROG on one object;      *)
(*   FrogSpec  measure, load_measurement_data and retrieve_phase of FROG;  *)
(*   SizeSpec  set_size, load_seed, prepFROG and retrievePhase in any order;*)
(*   ProjSpec  the projection of retrievePhase on a trace of MaxE entries; *)
(*   ColSpec   ePIE_fun_FROG column by column on a K x K trace;            *)
(*   CropSpec  FrogParams.update_crop_param on a small sensor.             *)
(***************************************************************************)
EXTENDS Integers, Sequences, FiniteSets, TLC

\* ------------------------------------------------------------- bounds
MaxIter == 2    \* largest iteration cap max_iter
MaxG == 1       \* error levels 0..MaxG (and tolerances)
MaxSide == 2    \* largest side of an image or length of a field
MaxPix == 1     \* largest raw pixel value
MaxStep == 2    \* largest calibration step ccddt, and number of delay steps
MaxSel == 2     \* selector values 0..MaxSel are tried (the code knows 0 and 1)
MaxN == 5       \* largest field length N of an entry-by-entry transform
MaxAmp == 2     \* largest intensity of an entry followed value by value
MaxE == 3       \* number of entries of a trace followed value by value
MaxSensor == 6  \* largest width and height of the camera sensor, in pixels

\* ------------------------------------------------- program constants
BlockSide == 8       \* background block: range(8) shifts per axis

VARIABLES
  \* --- fields of the PhaseRetrieval object
  prep_size, max_iter, GTol, method, seed, Fm, Fr, dtperpx,
  \* --- the frame of a retrievePhase call
  pc, args, FmN, Pt, G, FrLoc, iteration, mk, ret,
  \* --- the environment: the frog_prep file, the observer, a cancel request
  disk, emitted, delivered, cancel,
  \* --- history of the running call (not program state)
  Ghist, projections, Pt0, cfg0,
  \* --- the last prepFROG call and the last direct makeFROG/guessPulse call
  prep, call,
  \* --- the FROG object of src/Python/Model/frog.py and its measure loop
  frog,
  \* --- the matrices of the last makeFROG/guessPulse call, entry by entry
  mat,
  \* --- the last step followed value by value: its inputs and its results
  calc

objVars == <<prep_size, max_iter, GTol, method, seed, Fm, Fr, dtperpx>>
frameVars == <<pc, args, FmN, Pt, G, FrLoc, iteration, mk, ret>>
envVars == <<disk, emitted, delivered, cancel>>
histVars == <<Ghist, projections, Pt0, cfg0>>
vars == <<objVars, frameVars, envVars, histVars, prep, call, frog, mat, calc>>

\* ------------------------------------------------------------ values
Sides == 1..MaxSide
Levels == 0..MaxG

\* Python's None for a trace, a field, a result
NoTrace == <<>>
NoField == [src |-> "none", n |-> 0, cls |-> "none", it |-> 0]
NoFr == [set |-> FALSE, nan |-> FALSE, it |-> 0]

\* A float: not-a-number or a level
NaN == [nan |-> TRUE, v |-> 0]
Num(x) == [nan |-> FALSE, v |-> x]
\* IEEE comparison: every comparison with not-a-number is false
Gt(a, b) == ~a.nan /\ ~b.nan /\ a.v > b.v
Le(a, b) == ~a.nan /\ ~b.nan /\ a.v <= b.v

\* ----------------------------------------------------------- matrices
Rows(m) == Len(m)
Cols(m) == IF Len(m) = 0 THEN 0 ELSE Len(m[1])
Cells(m) == {<<r, c>> \in (1..Rows(m)) \X (1..Cols(m)) : TRUE}

RECURSIVE SumOver(_, _)
SumOver(m, S) ==
  IF S = {} THEN 0
  ELSE LET p == CHOOSE q \in S : TRUE
       IN m[p[1]][p[2]] + SumOver(m, S \ {p})

\* np.sum(m)
SumAll(m) == SumOver(m, Cells(m))
\* np.amax(m)
AMax(m) == CHOOSE x \in {m[p[1]][p[2]] : p \in Cells(m)} :
             \A q \in Cells(m) : m[q[1]][q[2]] <= x
\* np.amin(m)
AMin(m) == CHOOSE x \in {m[p[1]][p[2]] : p \in Cells(m)} :
             \A q \in Cells(m) : m[q[1]][q[2]] >= x
AllZero(m) == \A p \in Cells(m) : m[p[1]][p[2]] = 0

Flat(r, c, v) == [i \in 1..r |-> [j \in 1..c |-> v]]
\* level lo everywhere, hi at cell p
Peak(r, c, p, lo, hi) ==
  [i \in 1..r |-> [j \in 1..c |-> IF <<i, j>> = p THEN hi ELSE lo]]

\* One unit of pixel value in a stored trace: prepFROG subtracts a background
\* that is a sum over BlockSide x BlockSide shifts divided by 8.*8., so the
\* model keeps every trace in units of 1/Unit of a raw pixel value.
Unit == BlockSide * BlockSide
Scaled(m) == [i \in 1..Rows(m) |-> [j \in 1..Cols(m) |-> Unit * m[i][j]]]

\* ---------------------------------------------------- numeric helpers
\* normalize_max_one: arr/np.amax(arr).  The quotient is kept as the pair
\* (data, peak); with peak 0 every entry is 0/0, not-a-number.
normalize_max_one(arr) ==
  [data |-> arr, peak |-> AMax(arr), nan |-> AMax(arr) = 0]

\* makeFROG: (F, EF) for domain 0 and 1; for any other domain neither branch
\* is taken and the function falls off its end: Python returns None.
\* The trace of a zero field is zero, of a not-a-number field not-a-number.
makeFROG(P, domain, antialias) ==
  IF domain \in {0, 1}
    THEN [none |-> FALSE, n |-> P.n, cls |-> P.cls,
          domain |-> domain, antialias |-> antialias]
    ELSE [none |-> TRUE, n |-> 0, cls |-> "none",
          domain |-> domain, antialias |-> antialias]

\* calc_alpha: np.sum(Fm*Fr)/np.sum(np.square(Fr)): 0/0 for a zero Fr, and
\* not-a-number as soon as Fm or Fr holds one.  TRUE: alpha is not-a-number.
calc_alpha_nan(FmNorm, F) == FmNorm.nan \/ F.cls # "ok"

\* The values G = rms_diff(Fm, alpha*Fr) can take for this trace and field.
GOutcomes(FmNorm, F) ==
  IF calc_alpha_nan(FmNorm, F) THEN {NaN} ELSE {Num(g) : g \in Levels}

\* Fm*Fr of an (R, C) trace and an (n, n) trace: numpy broadcasts a side of 1
Broadcasts(R, C, n) == (R = n \/ R = 1 \/ n = 1) /\ (C = n \/ C = 1 \/ n = 1)

\* guessPulse: the next field from the corrected EF and the last field.
\*   domain 0: any antialias; domain 1 with antialias: range(2, vmax+1) with
\*   vmax = np.floor(N/2.) a float raises TypeError; any other domain: None.
\*   PowerOrSVD 0 is the power method, every other value the SVD.
\* degenerate: the product EF.EF^H.lastPt (or EF itself) is all zero, so
\* Pt/np.linalg.norm(Pt) is 0/0.
guessPulse(n, lastPt, domain, antialias, PowerOrSVD, it, degenerate) ==
  IF domain \notin {0, 1}
    THEN [exc |-> "none", field |-> NoField]
  ELSE IF domain = 1 /\ antialias # 0
    THEN [exc |-> "TypeError", field |-> NoField]
  ELSE IF PowerOrSVD = 0 /\ lastPt.n # n
    THEN [exc |-> "ValueError", field |-> NoField]
  ELSE [exc |-> "none",
        field |-> [src |-> "guess", n |-> n,
                   cls |-> IF degenerate THEN "nan" ELSE "ok", it |-> it]]

\* Lines 580-584 and 628-632: the estimator guessPulse uses
PulseMethod(PowerOrSVD) == IF PowerOrSVD = 0 THEN "power" ELSE "svd"

\* ------------------------------------------------------ initial state
\* A stored prepared trace of side n with its peak (one raw unit) at the
\* centre bin ceil(n/2), in units of 1/Unit.
PeakTrace(n) == Peak(n, n, <<(n + 1) \div 2, (n + 1) \div 2>>, 0, Unit)
ZeroTrace(n) == Flat(n, n, 0)

NoPrep == [called |-> FALSE, exc |-> "none", img |-> NoTrace, flip |-> 0,
           ccddt |-> 0, invdv |-> 0, size |-> 0, filtered |-> NoTrace,
           steps |-> <<>>]
NoCall == [fn |-> "none", n |-> 0, last |-> NoField, domain |-> 0,
           antialias |-> 0, PowerOrSVD |-> 0, by |-> "none", none |-> FALSE,
           exc |-> "none", field |-> NoField]
\* FROG.__init__: no data held, no stop asked for, no measurement running
\* data: self._data (None, or the Data of a measurement or of a file);
\* pc, i, steps: where measure() stands; exc: the exception that ended the
\* last measure(); last, prepFROG, retrievePhase: how the last retrieve_phase()
\* ended and what it invoked.  lastop, outcome and cleared remember the
\* latest event that concerns the data, how the latest measurement ended,
\* and whether its start found data held.
NoFrog == [data |-> "None", stop_measure |-> FALSE, pc |-> "idle", i |-> 0,
           steps |-> 0, last |-> "none", prepFROG |-> 0, retrievePhase |-> 0,
           exc |-> "none", lastop |-> "init", outcome |-> "none",
           cleared |-> FALSE]
\* No step followed value by value
NoCalc == [fn |-> "none"]
\* No makeFROG/guessPulse call followed entry by entry
NoMat == [fn |-> "none", N |-> 0, domain |-> 0, antialias |-> 0,
          exc |-> "none", none |-> FALSE, EF |-> <<>>, F |-> <<>>,
          outer |-> <<>>, from |-> <<0, 0>>, est |-> "none",
          degenerate |-> FALSE]
NoArgs == [Fm |-> NoTrace, mov |-> 0, data |-> FALSE, label |-> FALSE,
           title |-> FALSE, axis |-> FALSE]
NoCfg == [GTol |-> 0, max_iter |-> 0, method |-> <<0, 0, 0, 0>>]
\* dtperpx: the default of __init__, or ccddt of a prepFROG call, times the
\* pitch tpxpersample when the trace was rebinned
DefaultDt == [ccddt |-> 0, scaled |-> FALSE]

\* The frame of no call
IdleFrame ==
  /\ pc = "idle" /\ args = NoArgs /\ FmN = normalize_max_one(ZeroTrace(1))
  /\ Pt = NoField /\ G = NaN /\ FrLoc = NoFr /\ iteration = 0
  /\ mk = <<0, 0>> /\ ret = "none"
  /\ emitted = <<>> /\ delivered = 0 /\ cancel = FALSE
  /\ Ghist = <<>> /\ projections = 0 /\ Pt0 = NoField /\ cfg0 = NoCfg

\* PhaseRetrieval.__init__(max_iter, prep_size, GTol)
ObjInit(mi, ps, tol) ==
  /\ prep_size = ps /\ max_iter = mi /\ GTol = tol
  /\ method = <<0, 0, 0, 0>> /\ seed = NoField
  /\ Fm = ZeroTrace(ps) /\ Fr = NoFr /\ dtperpx = DefaultDt

\* ------------------------------------------------------------ setters
set_size(val) ==
  /\ prep_size' = val
  /\ UNCHANGED <<max_iter, GTol, method, seed, Fm, Fr, dtperpx>>

set_max_iterations(val) ==
  /\ max_iter' = val
  /\ UNCHANGED <<prep_size, GTol, method, seed, Fm, Fr, dtperpx>>

set_tolerance(val) ==
  /\ GTol' = val
  /\ UNCHANGED <<prep_size, max_iter, method, seed, Fm, Fr, dtperpx>>

\* self.method = [...] (the attribute has no setter)
set_method(val) ==
  /\ method' = val
  /\ UNCHANGED <<prep_size, max_iter, GTol, seed, Fm, Fr, dtperpx>>

\* load_seed: a file of len numbers, all zero or not; reshape(prep_size, 1)
\* raises ValueError for any other length and leaves the seed as it was.
load_seed(len, zero) ==
  /\ seed' = IF len = prep_size
               THEN [src |-> "seed", n |-> len,
                     cls |-> IF zero THEN "zero" ELSE "ok", it |-> 0]
               ELSE seed
  /\ UNCHANGED <<prep_size, max_iter, GTol, method, Fm, Fr, dtperpx>>

\* ------------------------------------------------------ retrievePhase
Note(ch, it, g) == [ch |-> ch, it |-> it, G |-> g]

\* The exception e leaves retrievePhase: nothing is returned, self.Fr is not
\* assigned.
Raise(e) ==
  /\ pc' = "raised" /\ ret' = e
  /\ UNCHANGED objVars

\* The field the run starts from: the loaded seed, or a gaussian envelope
\* times a random phase (never zero).
SeedField(N) ==
  IF seed = NoField
    THEN [src |-> "synth", n |-> N, cls |-> "ok", it |-> 0]
    ELSE seed

\* Lines 664-672: the trace the run works on.  NoTrace: the file is missing.
SourceTrace(FmArg) ==
  IF FmArg # NoTrace THEN FmArg
  ELSE IF SumAll(Fm) \div Unit # 0 THEN Fm
  ELSE disk

\* Lines 693-694 and 738-740: what the observer is sent before the loop
FirstNotes(a, g) ==
  (IF a.axis THEN <<Note("axis", 0, g)>> ELSE <<>>)
  \o (IF a.mov = 0 /\ a.data /\ a.label
        THEN <<Note("trace", 0, g), Note("label", 0, g)>>
      ELSE IF a.mov = 1 THEN <<Note("window", 0, g)>>
      ELSE <<>>)

\* A progress notification numbered from zero
ProgressNotesFromZero(a, it, g) ==
  IF a.mov = 0 /\ a.data /\ a.title THEN <<Note("progress", it - 1, g)>>
  ELSE IF a.mov = 1 THEN <<Note("window", it, g)>>
  ELSE <<>>

\* Lines 838-853: what the observer is sent at the end of an iteration
ProgressNotes(a, it, g) ==
  IF a.mov = 0 /\ a.data /\ a.title THEN <<Note("progress", it, g)>>
  ELSE IF a.mov = 1 THEN <<Note("window", it, g)>>
  ELSE <<>>

\* Lines 662-775: from the call to the first evaluation of the error
retrievePhase_enter(FmArg, mov, sig) ==
  /\ pc = "idle"
  /\ LET a == [Fm |-> FmArg, mov |-> mov, data |-> sig.data,
               label |-> sig.label, title |-> sig.title, axis |-> sig.axis]
         src == SourceTrace(FmArg)
     IN
     /\ args' = a
     /\ delivered' = 0 /\ cancel' = FALSE /\ projections' = 0
     /\ cfg0' = [GTol |-> GTol, max_iter |-> max_iter, method |-> method]
     /\ iteration' = 0
     /\ mk' = <<method[1], method[2]>>
     /\ UNCHANGED <<disk, prep>>
     /\ IF src = NoTrace
          THEN /\ Raise("FileNotFoundError")
               /\ emitted' = <<>>
               /\ UNCHANGED <<FmN, Pt, G, FrLoc, Ghist, Pt0>>
          ELSE LET N == Cols(src)
                   P == SeedField(N)
                   r == makeFROG(P, method[1], method[2])
                   axisNote == IF a.axis THEN <<Note("axis", 0, NaN)>> ELSE <<>>
               IN
               /\ FmN' = normalize_max_one(src)
               /\ Pt' = P /\ Pt0' = P
               /\ IF r.none
                    THEN \* Fr, EFr = None
                         /\ Raise("TypeError")
                         /\ emitted' = axisNote
                         /\ UNCHANGED <<G, FrLoc, Ghist>>
                  ELSE IF ~Broadcasts(Rows(src), N, P.n)
                    THEN \* Fm*Fr in calc_alpha
                         /\ Raise("ValueError")
                         /\ emitted' = axisNote
                         /\ UNCHANGED <<G, FrLoc, Ghist>>
                  ELSE \E g \in GOutcomes(normalize_max_one(src), r) :
                         /\ G' = g
                         /\ FrLoc' = [set |-> TRUE, nan |-> g.nan, it |-> 0]
                         /\ Ghist' = <<g>>
                         /\ emitted' = FirstNotes(a, NaN)
                         /\ pc' = "test" /\ ret' = "none"
                         /\ UNCHANGED objVars

\* A loop test that lets the counter reach the cap before it stops
LoopCondInclusive == Gt(G, Num(GTol)) /\ iteration <= max_iter

\* Line 782: while G>self.GTol and iteration<self.max_iter
LoopCond == Gt(G, Num(GTol)) /\ iteration < max_iter

LoopTest ==
  /\ pc = "test"
  /\ pc' = IF LoopCond THEN "project" ELSE "finish"
  /\ UNCHANGED <<objVars, args, FmN, Pt, G, FrLoc, iteration, mk, ret,
                 envVars, histVars, prep, call, frog, mat, calc>>

\* Lines 784-804: count the iteration, read the method list, give EFr the
\* measured amplitude, estimate the field
Project ==
  /\ pc = "project"
  /\ iteration' = iteration + 1
  /\ mk' = <<method[1], method[2]>>
  /\ UNCHANGED <<args, FmN, G, FrLoc, envVars, Ghist, Pt0, cfg0, prep, call, frog, mat, calc>>
  /\ LET R == Rows(FmN.data)
         C == Cols(FmN.data)
     IN IF ~((R = Pt.n /\ C = Pt.n) \/ Pt.n = 1)
          THEN \* np.divide(Fm, Fr, out=np.zeros_like(Fm)): out has Fm's shape
               /\ Raise("ValueError")
               /\ UNCHANGED <<Pt, projections>>
          ELSE \E degenerate \in BOOLEAN :
                 LET e == guessPulse(C, Pt, method[3], method[4], 0,
                                     iteration + 1, degenerate)
                 IN /\ projections' = projections + 1
                    /\ IF e.exc # "none"
                         THEN Raise(e.exc) /\ UNCHANGED Pt
                         ELSE /\ Pt' = e.field
                              /\ pc' = "recentre"
                              /\ UNCHANGED <<objVars, ret>>

\* Lines 806-814: roll the field so that its centroid sits at N/2
Recentre ==
  /\ pc = "recentre"
  /\ UNCHANGED <<args, FmN, Pt, G, FrLoc, iteration, mk, envVars, histVars,
                 prep, call, frog, mat, calc>>
  /\ IF Pt = NoField
       THEN Raise("TypeError")        \* np.power(None, 4)
     ELSE IF Pt.cls = "nan"
       THEN Raise("ValueError")       \* int(np.round(nan))
     ELSE pc' = "remake" /\ UNCHANGED <<objVars, ret>>

\* Lines 817-822: the trace and the error of the recentred field
Remake ==
  /\ pc = "remake"
  /\ UNCHANGED <<args, FmN, Pt, iteration, mk, envVars, projections, Pt0,
                 cfg0, prep, call, frog, mat, calc>>
  /\ LET r == makeFROG(Pt, mk[1], mk[2])
     IN IF r.none
          THEN Raise("TypeError") /\ UNCHANGED <<G, FrLoc, Ghist>>
          ELSE \E g \in GOutcomes(FmN, r) :
                 /\ G' = g
                 /\ FrLoc' = [set |-> TRUE, nan |-> g.nan, it |-> iteration]
                 /\ Ghist' = Append(Ghist, g)
                 /\ pc' = "emit"
                 /\ UNCHANGED <<objVars, ret>>

\* A progress step that waits until the observer has taken every earlier
\* notification
EmitProgressWaits ==
  /\ pc = "emit"
  /\ delivered = Len(emitted)
  /\ emitted' = emitted \o ProgressNotes(args, iteration, G)
  /\ pc' = "test"
  /\ UNCHANGED <<objVars, args, FmN, Pt, G, FrLoc, iteration, mk, ret, disk,
                 delivered, cancel, histVars, prep, call, frog, mat, calc>>

\* Lines 824-853: the progress notification; emit() does not wait for a slot
EmitProgress ==
  /\ pc = "emit"
  /\ emitted' = emitted \o ProgressNotes(args, iteration, G)
  /\ pc' = "test"
  /\ UNCHANGED <<objVars, args, FmN, Pt, G, FrLoc, iteration, mk, ret, disk,
                 delivered, cancel, histVars, prep, call, frog, mat, calc>>

\* An end of the run that keeps the field as the seed of the next run
FinishSavesSeed ==
  /\ pc = "finish"
  /\ Fr' = FrLoc /\ seed' = Pt
  /\ ret' = "None"
  /\ pc' = "done"
  /\ UNCHANGED <<prep_size, max_iter, GTol, method, Fm, dtperpx, args,
                 FmN, Pt, G, FrLoc, iteration, mk, envVars, histVars, prep,
                 call, frog, mat, calc>>

\* Lines 865-866: self.Fr = Fr; the function ends without a return statement
Finish ==
  /\ pc = "finish"
  /\ Fr' = FrLoc
  /\ ret' = "None"
  /\ pc' = "done"
  /\ UNCHANGED <<prep_size, max_iter, GTol, method, seed, Fm, dtperpx, args,
                 FmN, Pt, G, FrLoc, iteration, mk, envVars, histVars, prep,
                 call, frog, mat, calc>>

\* The caller goes on: the frame is gone
Return ==
  /\ pc \in {"done", "raised"}
  /\ pc' = "idle" /\ args' = NoArgs /\ FmN' = normalize_max_one(ZeroTrace(1))
  /\ Pt' = NoField /\ G' = NaN /\ FrLoc' = NoFr /\ iteration' = 0
  /\ mk' = <<0, 0>> /\ ret' = "none"
  /\ emitted' = <<>> /\ delivered' = 0 /\ cancel' = FALSE
  /\ Ghist' = <<>> /\ projections' = 0 /\ Pt0' = NoField /\ cfg0' = NoCfg
  /\ UNCHANGED <<objVars, disk, prep, call, frog, mat, calc>>

\* The observer takes the next notification, whenever it gets to it
ObserverTakes ==
  /\ delivered < Len(emitted)
  /\ delivered' = delivered + 1
  /\ UNCHANGED <<objVars, frameVars, disk, emitted, cancel, histVars, prep,
                 call, frog, mat, calc>>

\* ------------------------------------------------ the sequential engine
\* One caller: it constructs the object, sets it up between runs, and runs
\* retrievePhase to its end before it calls anything else.
AllSignals == [data |-> TRUE, label |-> TRUE, title |-> TRUE, axis |-> TRUE]
NoSignals == [data |-> FALSE, label |-> FALSE, title |-> FALSE, axis |-> FALSE]
TraceArgs == {NoTrace} \cup {ZeroTrace(n) : n \in Sides}
                       \cup {PeakTrace(n) : n \in Sides}

Init ==
  /\ \E mi \in 0..MaxIter, ps \in Sides, tol \in Levels : ObjInit(mi, ps, tol)
  /\ IdleFrame
  /\ disk \in {NoTrace, PeakTrace(prep_size)}
  /\ prep = NoPrep /\ call = NoCall /\ frog = NoFrog /\ mat = NoMat
  /\ calc = NoCalc

Idle == pc = "idle"
FrameSame == UNCHANGED <<frameVars, envVars, histVars, prep, call, frog, mat, calc>>

SetMaxIterations == \E v \in 0..MaxIter : Idle /\ set_max_iterations(v) /\ FrameSame
SetTolerance == \E v \in Levels : Idle /\ set_tolerance(v) /\ FrameSame
LoadSeed == \E len \in Sides, zero \in BOOLEAN : Idle /\ load_seed(len, zero) /\ FrameSame
Enter == \E FmArg \in TraceArgs, mov \in 0..2, sig \in {NoSignals, AllSignals} :
           retrievePhase_enter(FmArg, mov, sig) /\ UNCHANGED <<call, frog, mat, calc>>

Next ==
  \/ SetMaxIterations
  \/ SetTolerance
  \/ LoadSeed
  \/ Enter
  \/ LoopTest
  \/ Project
  \/ Recentre
  \/ Remake
  \/ EmitProgress
  \/ Finish
  \/ Return
  \/ ObserverTakes

Spec == Init /\ [][Next]_vars

\* ------------------------------------------- the engine and other threads
\* The same run, with a second thread that calls the setters, assigns the
\* method list and asks for cancellation while retrievePhase is iterating.
Running == pc \in {"test", "project", "recentre", "remake", "emit", "finish"}
Methods == {<<d, 0, d, 0>> : d \in {0, 1}}

ConcInit ==
  /\ \E mi \in 0..MaxIter, tol \in Levels : ObjInit(mi, MaxSide, tol)
  /\ IdleFrame
  /\ disk = NoTrace
  /\ prep = NoPrep /\ call = NoCall /\ frog = NoFrog /\ mat = NoMat
  /\ calc = NoCalc

ConcSetMaxIterations == \E v \in 0..MaxIter : set_max_iterations(v) /\ FrameSame
ConcSetTolerance == \E v \in Levels : set_tolerance(v) /\ FrameSame
ConcSetMethod == \E v \in Methods : set_method(v) /\ FrameSame
ConcSetSize == \E v \in Sides : set_size(v) /\ FrameSame
ConcEnter ==
  retrievePhase_enter(PeakTrace(MaxSide), 0, NoSignals) /\ UNCHANGED <<call, frog, mat, calc>>

\* Another thread asks the running solver to stop
RequestCancel ==
  /\ Running /\ ~cancel
  /\ cancel' = TRUE
  /\ UNCHANGED <<objVars, frameVars, disk, emitted, delivered, histVars, prep,
                 call, frog, mat, calc>>

ConcNext ==
  \/ ConcSetMaxIterations
  \/ ConcSetTolerance
  \/ ConcSetMethod
  \/ ConcSetSize
  \/ ConcEnter
  \/ LoopTest
  \/ Project
  \/ Recentre
  \/ Remake
  \/ EmitProgress
  \/ Finish
  \/ Return
  \/ RequestCancel

ConcSpec == ConcInit /\ [][ConcNext]_vars

\* ------------------------------------------------------------ prepFROG
\* Lines 273-277: transpose for flip 1 and 3, then flip upside down for 2, 3
Transpose(m) == [j \in 1..Cols(m) |-> [i \in 1..Rows(m) |-> m[i][j]]]
FlipUD(m) == [i \in 1..Rows(m) |-> m[Rows(m) + 1 - i]]
Orient(m, flip) ==
  LET t == IF flip \in {1, 3} THEN Transpose(m) ELSE m
  IN IF flip \in {2, 3} THEN FlipUD(t) ELSE t

\* Lines 283-286: the rows and the columns that hold intensity
RowSum(m, i) == SumOver(m, {<<i, j>> : j \in 1..Cols(m)})
ColSum(m, j) == SumOver(m, {<<i, j>> : i \in 1..Rows(m)})
LitRows(m) == {i \in 1..Rows(m) : RowSum(m, i) # 0}
LitCols(m) == {j \in 1..Cols(m) : ColSum(m, j) # 0}

\* Lines 290-311: the pitches vpxpersample and tpxpersample.  The spot width
\* (height) is 0 when one column (row) holds all the intensity, and 0/0 for a
\* zero image; aspectratio = spotheight/spotwidth is then 0, infinite or
\* not-a-number, and so are the square roots.
Pitch(m) ==
  IF SumAll(m) = 0 THEN [v |-> "nan", t |-> "nan"]
  ELSE LET h0 == Cardinality(LitRows(m)) = 1
           w0 == Cardinality(LitCols(m)) = 1
       IN IF h0 /\ w0 THEN [v |-> "nan", t |-> "nan"]
          ELSE IF h0 THEN [v |-> "zero", t |-> "inf"]
          ELSE IF w0 THEN [v |-> "inf", t |-> "zero"]
          ELSE [v |-> "ok", t |-> "ok"]

\* Lines 378-387: int(round(x)) raises ValueError for a not-a-number x and
\* OverflowError for an infinite one.  The first row is computed first; with
\* an infinite vertical pitch every row lands on round(N/2.)-1, which for
\* N = 1 is -1: every row is skipped and no column is computed.
RebinExc(m, N) ==
  LET pitch == Pitch(m)
  IN IF pitch.v = "nan" THEN "ValueError"
     ELSE IF pitch.v = "zero"
       THEN IF LitRows(m) = {1} THEN "ValueError" ELSE "OverflowError"
     ELSE IF pitch.v = "inf" /\ N > 1
       THEN IF LitCols(m) = {1} THEN "ValueError" ELSE "OverflowError"
     ELSE "none"

\* Lines 329-341: the low-pass filter keeps the shape and keeps a zero image
\* zero; it can leave a band-limited image as it is or flatten it.
LowPassOutcomes(m) ==
  {m} \cup {Flat(Rows(m), Cols(m), v) : v \in 0..AMax(m)}

\* Lines 350-355: imgblocks[r, c] sums the image rolled by 1..8 rows and
\* 1..8 columns (np.roll wraps around)
Shifts(k, n, d) == Cardinality({s \in 1..BlockSide : (k - 1 - s) % n = d - 1})
BlockSum(m, r, c) ==
  SumAll([i \in 1..Rows(m) |-> [j \in 1..Cols(m) |->
            Shifts(r, Rows(m), i) * Shifts(c, Cols(m), j) * m[i][j]]])
imgblocks(m) ==
  [r \in 1..Rows(m) |-> [c \in 1..Cols(m) |-> BlockSum(m, r, c)]]

\* No background taken off: the image as it is, in units of 1/Unit
BackgroundKept(m) == Scaled(m)

\* Lines 357-360: ccdimg - np.amin(imgblocks)/(8.*8.), negatives set to 0;
\* the result is in units of 1/Unit
BackgroundSubtract(m) ==
  LET background == AMin(imgblocks(m))
  IN [i \in 1..Rows(m) |-> [j \in 1..Cols(m) |->
        IF Unit * m[i][j] > background THEN Unit * m[i][j] - background
        ELSE 0]]

\* Line 370: ccddt * ccddv == 1./float(self.prep_size) with ccddv = 1/invdv
SamplingIdentity(ccddt, invdv, N) == ccddt * N = invdv

\* Lines 375-393: every pixel of the rebinned trace is 0 or an average of
\* pixels of the image: a zero image stays zero
RebinOutcomes(b, N) ==
  IF AllZero(b) THEN {ZeroTrace(N)}
  ELSE {ZeroTrace(N), Flat(N, N, AMax(b)),
        Peak(N, N, <<(N + 1) \div 2, (N + 1) \div 2>>, 0, AMax(b))}

\* prepFROG(ccddt, 1/invdv, ccdimg, flip=flip)
prepFROG(ccddt, invdv, ccdimg, flip) ==
  LET img == Orient(ccdimg, flip)
      N == prep_size
      log == [called |-> TRUE, exc |-> "none", img |-> ccdimg, flip |-> flip,
              ccddt |-> ccddt, invdv |-> invdv, size |-> N,
              filtered |-> NoTrace, steps |-> <<>>]
  IN \E f \in LowPassOutcomes(img) :
       LET b == BackgroundSubtract(f)
           done == [log EXCEPT !.filtered = f,
                               !.steps = <<"orient", "lowpass", "background">>]
       IN
       /\ UNCHANGED <<prep_size, max_iter, GTol, method, seed, Fr>>
       /\ IF Rows(b) = N /\ Cols(b) = N /\ SamplingIdentity(ccddt, invdv, N)
            THEN /\ Fm' = b
                 /\ dtperpx' = [ccddt |-> ccddt, scaled |-> FALSE]
                 /\ prep' = done
          ELSE IF RebinExc(img, N) # "none"
            THEN /\ UNCHANGED <<Fm, dtperpx>>
                 /\ prep' = [done EXCEPT !.exc = RebinExc(img, N)]
          ELSE \E out \in (IF Pitch(img).v = "inf" THEN {ZeroTrace(N)}
                           ELSE RebinOutcomes(b, N)) :
                 /\ Fm' = out
                 /\ dtperpx' = [ccddt |-> ccddt, scaled |-> TRUE]
                 /\ prep' = [done EXCEPT !.steps = Append(done.steps, "rebin")]

\* ------------------------------------------------ the trace preparation
\* One caller: it constructs the object, may set the size, and prepares one
\* raw image: a flat one, or a spot of one pixel on a flat ground.  The
\* calibration is ccddt with ccddv = 1/(ccddt*n): the one of a trace sampled
\* for side n.
Pixels == 0..MaxPix
Images ==
  UNION {{Flat(r, c, v) : v \in Pixels}
         \cup {Peak(r, c, q, lo, hi) : q \in (1..r) \X (1..c),
                                       lo \in Pixels, hi \in Pixels \ {0}}
         : r \in Sides, c \in Sides}

PrepInit ==
  /\ \E ps \in Sides : ObjInit(0, ps, 0)
  /\ IdleFrame
  /\ disk = NoTrace
  /\ prep = NoPrep /\ call = NoCall /\ frog = NoFrog /\ mat = NoMat
  /\ calc = NoCalc

PrepSetSize ==
  /\ ~prep.called
  /\ \E v \in Sides : set_size(v) /\ FrameSame

PrepCall ==
  /\ ~prep.called
  /\ \E ccddt \in 1..MaxStep, n \in Sides, ccdimg \in Images, flip \in 0..3 :
       /\ prepFROG(ccddt, ccddt * n, ccdimg, flip)
       /\ UNCHANGED <<frameVars, envVars, histVars, call, frog, mat, calc>>

PrepNext ==
  \/ PrepSetSize
  \/ PrepCall

PrepSpec == PrepInit /\ [][PrepNext]_vars

\* ---------------------------------------------------- the selectors
\* One caller: it assigns the method list, calls makeFROG and guessPulse
\* directly, and runs retrievePhase, with every selector value 0..MaxSel.  It
\* looks at the result of a direct call and drops it before it calls again.
Selectors == 0..MaxSel
Fields(n) ==
  {[src |-> "synth", n |-> n, cls |-> "ok", it |-> 0],
   [src |-> "seed", n |-> n, cls |-> "zero", it |-> 0]}

SelInit ==
  /\ ObjInit(1, MaxSide, 0)
  /\ IdleFrame
  /\ disk = NoTrace
  /\ prep = NoPrep /\ call = NoCall /\ frog = NoFrog /\ mat = NoMat
  /\ calc = NoCalc

SelSetMethod ==
  \E d \in Selectors, a \in 0..1, gd \in Selectors, ga \in 0..1 :
    /\ Idle /\ call = NoCall
    /\ set_method(<<d, a, gd, ga>>)
    /\ FrameSame

\* result = self.makeFROG(Pt, domain, antialias)
CallMakeFROG ==
  \E n \in Sides, domain \in Selectors, antialias \in 0..1 :
    \E P \in Fields(n) :
      LET r == makeFROG(P, domain, antialias)
      IN /\ Idle /\ call = NoCall
         /\ call' = [fn |-> "makeFROG", n |-> n, last |-> P,
                     domain |-> domain, antialias |-> antialias,
                     PowerOrSVD |-> 0, by |-> "none", none |-> r.none,
                     exc |-> "none",
                     field |-> [NoField EXCEPT !.n = r.n, !.cls = r.cls]]
         /\ UNCHANGED <<objVars, frameVars, envVars, histVars, prep, frog, mat, calc>>

\* result = self.guessPulse(EF, lastPt, domain, antialias, PowerOrSVD)
CallGuessPulse ==
  \E n \in Sides, ln \in Sides, domain \in Selectors, antialias \in 0..1,
     PowerOrSVD \in Selectors, degenerate \in BOOLEAN :
    LET last == [src |-> "synth", n |-> ln, cls |-> "ok", it |-> 0]
        e == guessPulse(n, last, domain, antialias, PowerOrSVD, 0, degenerate)
        returned == e.exc = "none"
    IN /\ Idle /\ call = NoCall
       /\ call' = [fn |-> "guessPulse", n |-> n, last |-> last,
                   domain |-> domain, antialias |-> antialias,
                   PowerOrSVD |-> PowerOrSVD,
                   by |-> IF returned /\ e.field # NoField
                            THEN PulseMethod(PowerOrSVD) ELSE "none",
                   none |-> returned /\ e.field = NoField,
                   exc |-> e.exc, field |-> e.field]
       /\ UNCHANGED <<objVars, frameVars, envVars, histVars, prep, frog, mat, calc>>

SelEnter ==
  /\ call = NoCall
  /\ retrievePhase_enter(PeakTrace(MaxSide), 0, NoSignals)
  /\ UNCHANGED <<call, frog, mat, calc>>

DropResult ==
  /\ call # NoCall
  /\ call' = NoCall
  /\ UNCHANGED <<objVars, frameVars, envVars, histVars, prep, frog, mat, calc>>

SelNext ==
  \/ SelSetMethod
  \/ CallMakeFROG
  \/ CallGuessPulse
  \/ SelEnter
  \/ DropResult
  \/ LoopTest
  \/ Project
  \/ Recentre
  \/ Remake
  \/ EmitProgress
  \/ Finish
  \/ Return

SelSpec == SelInit /\ [][SelNext]_vars

\* ------------------------------------------------------ ePIE_fun_FROG
\* Line 944: error = 1
InitialError == 1

\* Lines 940: np.loadtxt('seed_ptych.input') ... reshape(N, 1).  file is
\* NoField when there is no such file, or the field it holds.
SeedFiles == {NoField} \cup UNION {Fields(n) : n \in Sides}

\* Lines 895-954: from the call to the first loop test.  Called without I, dt
\* and df the trace is self.Fm * 65535 / np.amax(self.Fm), rounded: 0/0
\* everywhere for the zero trace of __init__.  Obj, error, Ir and i are kept
\* in Pt, G, FrLoc and iteration.
ePIE_enter(IArg, sig, file) ==
  /\ pc = "idle"
  /\ LET a == [Fm |-> IArg, mov |-> 0, data |-> sig.data, label |-> sig.label,
               title |-> sig.title, axis |-> sig.axis]
         I == IF IArg = NoTrace THEN Fm ELSE IArg
     IN
     /\ args' = a
     /\ FmN' = normalize_max_one(I)
     /\ delivered' = 0 /\ cancel' = FALSE /\ projections' = 0
     /\ cfg0' = [GTol |-> GTol, max_iter |-> max_iter, method |-> method]
     /\ mk' = <<0, 0>>
     /\ Ghist' = <<>>
     /\ UNCHANGED <<disk, prep>>
     /\ IF file = NoField \/ file.n # Rows(I)
          THEN /\ Raise(IF file = NoField THEN "FileNotFoundError"
                        ELSE "ValueError")
               /\ emitted' = <<>> /\ iteration' = 0
               /\ UNCHANGED <<Pt, G, FrLoc, Pt0>>
          ELSE /\ Pt' = file /\ Pt0' = file
               /\ G' = Num(InitialError)
               /\ FrLoc' = [set |-> TRUE, nan |-> FALSE, it |-> 0]
               /\ emitted' =
                    (IF a.axis THEN <<Note("axis", 0, NaN)>> ELSE <<>>)
                    \o (IF a.data /\ a.label
                          THEN <<Note("trace", 0, NaN), Note("label", 0, NaN)>>
                          ELSE <<>>)
               /\ iteration' = 1
               /\ pc' = "ptest" /\ ret' = "none"
               /\ UNCHANGED objVars

\* A loop test that allows one pass more than the cap
PieLoopCondBeyond == Gt(G, Num(GTol)) /\ iteration <= max_iter + 1

\* Line 957: while error > self.GTol and i <= self.max_iter
PieLoopCond == Gt(G, Num(GTol)) /\ iteration <= max_iter

\* Lines 957 and 1009: the loop test; when it fails the function returns
\* Obj, error, Ir
PieTest ==
  /\ pc = "ptest"
  /\ IF PieLoopCond THEN pc' = "ppass" /\ ret' = ret
                    ELSE pc' = "done" /\ ret' = "tuple"
  /\ UNCHANGED <<objVars, args, FmN, Pt, G, FrLoc, iteration, mk, envVars,
                 histVars, prep, call, frog, mat, calc>>

\* Lines 958-1006: one pass over the K delays.  The column I[:, s] has N
\* entries and reshape(K, 1) raises for a trace that is not square.  A zero or
\* not-a-number field gives 0/0 in Uo and Up; the error, recomputed at
\* iterK = 0, is not-a-number then, and when I is.
PiePass ==
  /\ pc = "ppass"
  /\ UNCHANGED <<args, FmN, mk, disk, delivered, cancel, projections, Pt0,
                 cfg0, prep, call, frog, mat, calc>>
  /\ IF Rows(FmN.data) # Cols(FmN.data)
       THEN /\ Raise("ValueError")
            /\ UNCHANGED <<Pt, G, FrLoc, iteration, emitted, Ghist>>
       ELSE LET bad == Pt.cls # "ok" \/ FmN.nan
            IN \E e \in (IF bad THEN {NaN} ELSE {Num(g) : g \in Levels}) :
                 /\ Pt' = [Pt EXCEPT !.cls = IF bad THEN "nan" ELSE "ok",
                                     !.it = iteration]
                 /\ G' = e
                 /\ Ghist' = Append(Ghist, e)
                 /\ FrLoc' = [set |-> TRUE, nan |-> bad, it |-> iteration]
                 /\ emitted' = emitted \o
                      (IF args.data /\ args.title
                         THEN <<Note("progress", iteration, e)>> ELSE <<>>)
                 /\ iteration' = iteration + 1
                 /\ pc' = "ptest"
                 /\ UNCHANGED <<objVars, ret>>

\* ------------------------------------------------------ the two solvers
\* One caller: it constructs the object, may prepare a trace (a raw image
\* with one lit pixel, sampled for prep_size) and load a
\* seed, sets the cap and the tolerance between runs, and runs either solver
\* to its end, any number of times.
PieInit ==
  /\ \E mi \in 0..MaxIter, tol \in Levels : ObjInit(mi, MaxSide, tol)
  /\ IdleFrame
  /\ disk = NoTrace
  /\ prep = NoPrep /\ call = NoCall /\ frog = NoFrog /\ mat = NoMat
  /\ calc = NoCalc

PiePrepFROG ==
  /\ Idle /\ ~prep.called
  /\ prepFROG(1, prep_size, Peak(prep_size, prep_size, <<1, 1>>, 0, 2), 0)
  /\ UNCHANGED <<frameVars, envVars, histVars, call, frog, mat, calc>>

PieEnter ==
  \E IArg \in {NoTrace, PeakTrace(MaxSide), Flat(1, MaxSide, Unit)},
     sig \in {NoSignals, AllSignals}, file \in SeedFiles :
       ePIE_enter(IArg, sig, file) /\ UNCHANGED <<call, frog, mat, calc>>

GPEnter ==
  \E FmArg \in {NoTrace, PeakTrace(MaxSide)} :
       retrievePhase_enter(FmArg, 0, NoSignals) /\ UNCHANGED <<call, frog, mat, calc>>

PieNext ==
  \/ SetMaxIterations
  \/ SetTolerance
  \/ LoadSeed
  \/ PiePrepFROG
  \/ PieEnter
  \/ PieTest
  \/ PiePass
  \/ GPEnter
  \/ LoopTest
  \/ Project
  \/ Recentre
  \/ Remake
  \/ EmitProgress
  \/ Finish
  \/ Return

PieSpec == PieInit /\ [][PieNext]_vars

\* ------------------------------------- the transforms, entry by entry
\* A matrix is a function of the row index 0..N-1 giving a function of the
\* column index.  An entry is a term: zero, the product P[i]*P[j] of two
\* samples (of the field, or of its Fourier components in domain 1), the
\* component f of the discrete Fourier transform (or of its inverse) of a
\* column col, or the squared modulus of a term.
ZeroT == [k |-> "zero", i |-> 0, j |-> 0, col |-> <<>>]
Prod(i, j) == [k |-> "prod", i |-> i, j |-> j, col |-> <<>>]
Dft(kind, f, col) == [k |-> kind, i |-> f, j |-> 0, col |-> col]
AbsSq(t) == [k |-> "abs2", i |-> 0, j |-> 0, col |-> <<t>>]

Ix(N) == 0..(N - 1)
Mat(N, e(_, _)) == [r \in Ix(N) |-> [c \in Ix(N) |-> e(r, c)]]

\* int(np.ceil(N/2.)) and int(np.floor(N/2.))
Ceil2(N) == (N + 1) \div 2
Floor2(N) == N \div 2
\* A zero bin one place too far
ZeroBinNext(N) == Ceil2(N)
\* Lines 478 and 531: int(np.ceil(N/2.)-1), the place of the zero bin
ZeroBin(N) == Ceil2(N) - 1

\* np.outer(P, P)
outer(N) == LET e(r, c) == Prod(r, c) IN Mat(N, e)

\* A mask that deletes only delays beyond ceil(N/2)
MaskTimeBeyond(M, N) ==
  LET e(r, c) == IF c - r < -Ceil2(N) \/ c - r > Ceil2(N) THEN ZeroT
                 ELSE M[r][c]
  IN Mat(N, e)
\* Lines 465 and 578: EF - np.tril(EF,-np.ceil(N/2.)) - np.triu(EF,np.ceil(N/2.))
\* np.tril(EF, k) keeps the entries with c - r <= k, np.triu those with
\* c - r >= k.
MaskTime(M, N) ==
  LET e(r, c) == IF c - r <= -Ceil2(N) \/ c - r >= Ceil2(N) THEN ZeroT
                 ELSE M[r][c]
  IN Mat(N, e)

\* The mask with its first loop started at row 2
MaskFreqFromTwo(M, N) ==
  LET vmax == Floor2(N)
      vmin == vmax + 1
      e(n, c) ==
        IF \/ (n \in 2..vmax /\ c >= vmax - (n - 1) /\ c < vmax + 1)
           \/ (n \in vmin..(N - 1) /\ c >= vmin /\ c < vmin + (N - n))
          THEN ZeroT ELSE M[n][c]
  IN Mat(N, e)
\* Lines 510-516: for n in range(1,vmax+1): EF[n,vmax-(n-1):vmax+1] = 0
\*                for n in range(vmin,N):   EF[n,vmin:vmin+(N-n)] = 0
MaskFreq(M, N) ==
  LET vmax == Floor2(N)
      vmin == vmax + 1
      e(n, c) ==
        IF \/ (n \in 1..vmax /\ c >= vmax - (n - 1) /\ c < vmax + 1)
           \/ (n \in vmin..(N - 1) /\ c >= vmin /\ c < vmin + (N - n))
          THEN ZeroT ELSE M[n][c]
  IN Mat(N, e)

\* for n in range(0,N): EF[n,:] = np.roll(EF[n,:], sign*n)
RollRows(M, N, sign) ==
  LET e(n, c) == M[n][(c - sign * n) % N] IN Mat(N, e)
\* np.roll(EF, shift, 0) and np.roll(EF, shift, 1)
Roll0(M, N, shift) == LET e(r, c) == M[(r - shift) % N][c] IN Mat(N, e)
Roll1(M, N, shift) == LET e(r, c) == M[r][(c - shift) % N] IN Mat(N, e)
\* np.fft.fftshift(EF, 1) rolls by N//2
fftshift1(M, N) == Roll1(M, N, Floor2(N))
\* An inverse shift that rolls forward again
ifftshiftForward(M, N) == Roll1(M, N, Floor2(N))
\* np.fft.ifftshift(EF, 1) rolls by -(N//2)
ifftshift1(M, N) == Roll1(M, N, -Floor2(N))
fliplr(M, N) == LET e(r, c) == M[r][N - 1 - c] IN Mat(N, e)
flipud(M, N) == LET e(r, c) == M[N - 1 - r][c] IN Mat(N, e)
transpose(M, N) == LET e(r, c) == M[c][r] IN Mat(N, e)

\* np.fft.fft / np.fft.ifft along axis 0.  The transform of a column that
\* holds, in order, the components 0..N-1 of the opposite transform of a
\* column X is X; the transform of a zero column is zero.
Column(M, N, c) == [r \in Ix(N) |-> M[r][c]]
Opposite(kind) == IF kind = "fft" THEN "ifft" ELSE "fft"
Undoes(kind, col, N) ==
  /\ \A r \in Ix(N) : col[r].k = Opposite(kind) /\ col[r].i = r
  /\ \A r \in Ix(N) : col[r].col = col[0].col
Transform0(M, N, kind) ==
  LET e(f, c) ==
        LET col == Column(M, N, c)
        IN IF \A r \in Ix(N) : col[r] = ZeroT THEN ZeroT
           ELSE IF Undoes(kind, col, N) THEN col[0].col[f]
           ELSE Dft(kind, f, col)
  IN Mat(N, e)

\* A trace read off the transposed matrix
TraceOfTransposed(EF, N) == LET e(r, c) == AbsSq(EF[c][r]) IN Mat(N, e)
\* Lines 481 and 538: F = np.square(np.absolute(EF))
TraceOf(EF, N) == LET e(r, c) == AbsSq(EF[r][c]) IN Mat(N, e)

\* makeFROG on a field of N samples, entry by entry.  outer is the outer
\* product as it stands after the anti-alias step.
makeFROGFrom(E0, N, domain, antialias) ==
  IF domain = 0 THEN
    LET E1 == IF antialias # 0 THEN MaskTime(E0, N) ELSE E0
        E2 == RollRows(E1, N, -1)
        E3 == fliplr(fftshift1(E2, N), N)
        E4 == Roll0(Transform0(E3, N, "fft"), N, ZeroBin(N))
    IN [none |-> FALSE, outer |-> E1, EF |-> E4, F |-> TraceOf(E4, N)]
  ELSE IF domain = 1 THEN
    LET E1 == IF antialias # 0 THEN MaskFreq(E0, N) ELSE E0
        E2 == RollRows(fliplr(E1, N), N, -1)
        E3 == flipud(fliplr(Transform0(E2, N, "ifft"), N), N)
        E4 == Roll1(Roll0(E3, N, Ceil2(N)), N, ZeroBin(N))
        E5 == transpose(E4, N)
    IN [none |-> FALSE, outer |-> E1, EF |-> E5, F |-> TraceOf(E5, N)]
  ELSE [none |-> TRUE, outer |-> <<>>, EF |-> <<>>, F |-> <<>>]

\* Lines 452 and 491-493: the outer product of the field with itself, or of
\* its Fourier components
makeFROGMat(N, domain, antialias) ==
  makeFROGFrom(outer(N), N, domain, antialias)

\* Line 814: np.roll(Pt, -m): sample i of the result is sample (i+m) mod N
Rolled(N, m) == [i \in Ix(N) |-> (i + m) % N]
\* A term times the phase factor exp(2 pi 1j e / N)
Phased(t, e) ==
  IF t = ZeroT \/ e = 0 THEN t
  ELSE [k |-> "phase", i |-> e, j |-> 0, col |-> <<t>>]
\* The outer product makeFROG starts from when it is handed the rolled field:
\* in domain 0 the products of the permuted samples; in domain 1 the
\* products of the Fourier components, component k of the rolled field being
\* component k of the field times exp(2 pi 1j k m / N).
outerRolled(N, m, domain) ==
  LET e(r, c) == IF domain = 0 THEN Prod(Rolled(N, m)[r], Rolled(N, m)[c])
                 ELSE Phased(Prod(r, c), ((r + c) * m) % N)
  IN Mat(N, e)

\* Two entries of a trace that have the same value whatever the field is:
\* the same term, or the squared moduli of the same Fourier component of two
\* columns one of which is the other rotated (the transform of a rotated
\* column is the transform times a phase factor) or the other times one
\* phase factor.
SameModulus(t1, t2, N) ==
  \/ t1 = t2
  \/ /\ t1.k = "abs2" /\ t2.k = "abs2"
     /\ LET x1 == t1.col[1]
            x2 == t2.col[1]
        IN /\ x1.k \in {"fft", "ifft"} /\ x2.k = x1.k /\ x2.i = x1.i
           /\ \/ \E rho \in Ix(N) :
                   \A r \in Ix(N) : x1.col[r] = x2.col[(r - rho) % N]
              \/ \E e \in Ix(N) :
                   \A r \in Ix(N) : x1.col[r] = Phased(x2.col[r], e)
SameTrace(F1, F2, N) ==
  \A r \in Ix(N), c \in Ix(N) : SameModulus(F1[r][c], F2[r][c], N)

\* guessPulse on the matrix EF, entry by entry, up to the matrix the field is
\* estimated from (outer).  In domain 1 with anti-aliasing, vmax is the float
\* np.floor(N/2.) and range(2, vmax+1) raises TypeError.
guessPulseMat(EF, N, domain, antialias) ==
  IF domain = 0 THEN
    LET E1 == Transform0(Roll0(EF, N, -ZeroBin(N)), N, "ifft")
        E2 == ifftshift1(fliplr(E1, N), N)
        E3 == RollRows(E2, N, 1)
        E4 == IF antialias # 0 THEN MaskTime(E3, N) ELSE E3
    IN [none |-> FALSE, exc |-> "none", outer |-> E4]
  ELSE IF domain = 1 THEN
    LET E1 == Roll1(transpose(EF, N), N, -ZeroBin(N))
        E2 == flipud(fliplr(Roll0(E1, N, -Ceil2(N)), N), N)
        E3 == fliplr(RollRows(Transform0(E2, N, "fft"), N, 1), N)
    IN IF antialias # 0
         THEN [none |-> FALSE, exc |-> "TypeError", outer |-> <<>>]
         ELSE [none |-> FALSE, exc |-> "none", outer |-> E3]
  ELSE [none |-> TRUE, exc |-> "none", outer |-> <<>>]

\* Lines 580-591 and 628-639: the field guessPulse extracts from the matrix
\* M.  The outer product P P^T has rank one: the power method returns
\* P (P^T conj(P)) (P^H lastPt), the first singular vector is P/|P|, and the
\* normalisation leaves P up to a scalar ("Pt"; in domain 1 P is the transform
\* of Pt and the result is transformed back).  degenerate: P^H lastPt is
\* zero, the power method then divides 0 by 0.
PulseFrom(M, N, PowerOrSVD, degenerate) ==
  IF M # outer(N) THEN "other"
  ELSE IF PowerOrSVD = 0 /\ degenerate THEN "nan"
  ELSE "Pt"

\* One caller: it calls makeFROG on a field of N samples, hands the matrix it
\* got to guessPulse, and drops the result before it calls makeFROG again.
MatInit ==
  /\ ObjInit(1, MaxSide, 0)
  /\ IdleFrame
  /\ disk = NoTrace
  /\ prep = NoPrep /\ call = NoCall /\ frog = NoFrog /\ mat = NoMat
  /\ calc = NoCalc

MatSame ==
  UNCHANGED <<objVars, frameVars, envVars, histVars, prep, call, frog, calc>>

MatMakeFROG ==
  /\ mat = NoMat
  /\ \E N \in 1..MaxN, domain \in Selectors, antialias \in 0..1 :
       LET r == makeFROGMat(N, domain, antialias)
       IN mat' = [fn |-> "makeFROG", N |-> N, domain |-> domain,
                  antialias |-> antialias, exc |-> "none", none |-> r.none,
                  EF |-> r.EF, F |-> r.F, outer |-> r.outer,
                  from |-> <<domain, antialias>>, est |-> "none",
                  degenerate |-> FALSE]
  /\ MatSame

MatGuessPulse ==
  /\ mat.fn = "makeFROG" /\ ~mat.none
  /\ \E domain \in Selectors, antialias \in 0..1, PowerOrSVD \in 0..1,
        degenerate \in BOOLEAN :
       LET r == guessPulseMat(mat.EF, mat.N, domain, antialias)
       IN mat' = [mat EXCEPT
                    !.fn = "guessPulse", !.domain = domain,
                    !.antialias = antialias, !.exc = r.exc,
                    !.none = r.none, !.outer = r.outer,
                    !.degenerate = degenerate,
                    !.est = IF r.none \/ r.exc # "none" THEN "none"
                            ELSE PulseFrom(r.outer, mat.N, PowerOrSVD,
                                           degenerate)]
  /\ MatSame

\* Lines 806-822: the field guessPulse estimated is rolled by a whole number
\* m of samples and makeFROG is called on the result with the selectors of
\* this iteration.  calc holds the samples of the rolled field (by their
\* index in the field before), its trace F, and the trace F0 the same call
\* gives for the field as it was.
MatRecentre ==
  /\ mat.fn = "guessPulse" /\ mat.est = "Pt" /\ calc = NoCalc
  /\ \E m \in Ix(mat.N), domain \in 0..1, antialias \in 0..1 :
       calc' = [fn |-> "recentre", N |-> mat.N, m |-> m, domain |-> domain,
                antialias |-> antialias, Pt |-> Rolled(mat.N, m),
                F |-> makeFROGFrom(outerRolled(mat.N, m, domain), mat.N,
                                   domain, antialias).F,
                F0 |-> makeFROGMat(mat.N, domain, antialias).F]
  /\ UNCHANGED <<objVars, frameVars, envVars, histVars, prep, call, frog, mat>>

MatDrop ==
  /\ mat # NoMat
  /\ mat' = NoMat /\ calc' = NoCalc
  /\ UNCHANGED <<objVars, frameVars, envVars, histVars, prep, call, frog>>

MatNext ==
  \/ MatMakeFROG
  \/ MatGuessPulse
  \/ MatRecentre
  \/ MatDrop

MatSpec == MatInit /\ [][MatNext]_vars

\* ------------------------------------------------- the FROG experiment
\* A measure() that keeps the data of the previous measurement
measure_begin_keeps(f, steps, settings) ==
  IF ~settings THEN [f EXCEPT !.exc = "Exception"]
  ELSE [f EXCEPT !.pc = "loop", !.i = 0, !.steps = steps,
                 !.exc = "none", !.lastop = "started", !.outcome = "none",
                 !.cleared = (f.data # "None")]
\* frog.py lines 62-69: measure() reads the settings (which raises for a
\* spectrometer without calibration, before anything is touched), deletes the
\* data held and moves the stage to its start position.
measure_begin(f, steps, settings) ==
  IF ~settings THEN [f EXCEPT !.exc = "Exception"]
  ELSE [f EXCEPT !.data = "None", !.pc = "loop", !.i = 0, !.steps = steps,
                 !.exc = "none", !.lastop = "started", !.outcome = "none",
                 !.cleared = (f.data # "None")]

\* frog.py lines 70-90: one pass of the loop, which ends with the test of the
\* stop flag
measure_step(f) ==
  [f EXCEPT !.i = f.i + 1,
            !.pc = IF f.stop_measure THEN "after" ELSE "loop"]

\* A test after the loop that goes on to store whatever the flag says
measure_test_ignores(f) == [f EXCEPT !.pc = "store"]
\* frog.py lines 91 and 99-100: the test of the flag after the loop.  With a
\* stop the data stay deleted, the flag is cleared and measure returns;
\* without, lines 92-98 follow.
measure_test(f) ==
  IF f.stop_measure
    THEN [f EXCEPT !.pc = "idle", !.stop_measure = FALSE,
                   !.outcome = "aborted"]
    ELSE [f EXCEPT !.pc = "store"]

\* frog.py lines 92-98: the trace is scaled and stored; frog_array is unbound
\* when the loop body never ran, and scale_pxl_values (lines 125-137) raises
\* for the ANDO spectrometer.  The flag is not read again.
measure_store(f, scales) ==
  IF f.i = 0
    THEN [f EXCEPT !.pc = "idle", !.exc = "UnboundLocalError",
                   !.outcome = "failed"]
  ELSE IF ~scales
    THEN [f EXCEPT !.pc = "idle", !.exc = "Exception", !.outcome = "failed"]
  ELSE [f EXCEPT !.pc = "idle", !.data = "measured", !.lastop = "stored",
                 !.outcome = "finished"]

\* frog.py lines 197-198
load_measurement_data(f) == [f EXCEPT !.data = "loaded", !.lastop = "loaded"]

\* frog.py lines 171-188: with data held, prepFROG and then retrievePhase of
\* self.algo are invoked; without, the exception is raised.
retrieve_phase(f) ==
  IF f.data # "None"
    THEN [f EXCEPT !.last = "ran", !.prepFROG = 1, !.retrievePhase = 1]
    ELSE [f EXCEPT !.last = "No recorded trace in buffer!",
                   !.prepFROG = 0, !.retrievePhase = 0]

FrogInit ==
  /\ ObjInit(1, MaxSide, 0)
  /\ IdleFrame
  /\ disk = NoTrace
  /\ prep = NoPrep /\ call = NoCall /\ frog = NoFrog /\ mat = NoMat
  /\ calc = NoCalc

FrogSame == UNCHANGED <<objVars, frameVars, envVars, histVars, prep, call, mat, calc>>

Measure ==
  /\ frog.pc = "idle"
  /\ \E steps \in 0..MaxStep, settings \in BOOLEAN :
       frog' = measure_begin(frog, steps, settings)
  /\ FrogSame

MeasureStep ==
  /\ frog.pc = "loop" /\ frog.i < frog.steps
  /\ frog' = measure_step(frog)
  /\ FrogSame

MeasureTest ==
  /\ frog.pc = "after" \/ (frog.pc = "loop" /\ frog.i = frog.steps)
  /\ frog' = measure_test(frog)
  /\ FrogSame

MeasureStore ==
  /\ frog.pc = "store"
  /\ \E scales \in BOOLEAN : frog' = measure_store(frog, scales)
  /\ FrogSame

\* The stop flag is a public attribute set by the caller's other thread
\* (frog.py line 52, read at lines 88 and 91)
RequestStop ==
  /\ ~frog.stop_measure
  /\ frog' = [frog EXCEPT !.stop_measure = TRUE]
  /\ FrogSame

LoadMeasurementData ==
  /\ frog' = load_measurement_data(frog)
  /\ frog' # frog
  /\ FrogSame

\* retrieve_phase is called once its previous result has been taken
RetrievePhase ==
  /\ frog.last = "none"
  /\ frog' = retrieve_phase(frog)
  /\ FrogSame

TakeResult ==
  /\ frog.last # "none"
  /\ frog' = [frog EXCEPT !.last = "none", !.prepFROG = 0,
                          !.retrievePhase = 0]
  /\ FrogSame

FrogNext ==
  \/ Measure
  \/ MeasureStep
  \/ MeasureTest
  \/ MeasureStore
  \/ RequestStop
  \/ LoadMeasurementData
  \/ RetrievePhase
  \/ TakeResult

FrogSpec == FrogInit /\ [][FrogNext]_vars

\* ------------------------------------------------- sizes and seeds
\* One caller: it constructs the object and then, in any order and any
\* number of times, sets the size, loads a seed file, prepares a raw image
\* (a spot of one pixel, already sampled for the current size) and runs
\* retrievePhase on the prepared trace.
SizeInit ==
  /\ \E ps \in Sides : ObjInit(1, ps, 0)
  /\ IdleFrame
  /\ disk = NoTrace
  /\ prep = NoPrep /\ call = NoCall /\ frog = NoFrog /\ mat = NoMat
  /\ calc = NoCalc

SizeSetSize == \E v \in Sides : Idle /\ set_size(v) /\ FrameSame

SizePrepFROG ==
  /\ Idle
  /\ prepFROG(1, prep_size, Peak(prep_size, prep_size, <<1, 1>>, 0, 2), 0)
  /\ UNCHANGED <<frameVars, envVars, histVars, call, frog, mat, calc>>

SizeEnter ==
  /\ retrievePhase_enter(NoTrace, 0, NoSignals)
  /\ UNCHANGED <<call, frog, mat, calc>>

SizeNext ==
  \/ SizeSetSize
  \/ LoadSeed
  \/ SizePrepFROG
  \/ SizeEnter
  \/ LoopTest
  \/ Project
  \/ Recentre
  \/ Remake
  \/ EmitProgress
  \/ Finish
  \/ Return

SizeSpec == SizeInit /\ [][SizeNext]_vars

\* --------------------------------- the projection, value by value
\* A trace is followed here as the sequence of its entries.  Fm holds the
\* entries of the measured trace before normalize_max_one and Fr those of
\* np.square(np.absolute(EFr)) as makeFROG returned them; a quotient is kept
\* as numerator and denominator.
Quot(n, d) == [n |-> n, d |-> d]
SameQuot(a, b) == a.n * b.d = b.n * a.d
Entries(S) == [1..MaxE -> S]
RECURSIVE SumTo(_, _)
SumTo(f, k) == IF k = 0 THEN 0 ELSE f[k] + SumTo(f, k - 1)
MaxOf(f) == CHOOSE x \in {f[e] : e \in DOMAIN f} : \A e \in DOMAIN f : f[e] <= x

\* calc_alpha(Fm, Fr) for the normalised Fm: np.sum(Fm*Fr)/np.sum(np.square(Fr))
calc_alpha(fm, fr) ==
  Quot(SumTo([e \in 1..MaxE |-> fm[e] * fr[e]], MaxE),
       MaxOf(fm) * SumTo([e \in 1..MaxE |-> fr[e] * fr[e]], MaxE))

\* A reconstructed trace left as makeFROG returned it
UnscaledFr(fm, fr) == [e \in 1..MaxE |-> Quot(fr[e], 1)]
\* Lines 735 and 821: Fr = Fr * calc_alpha(Fm, Fr)
ScaledFr(fm, fr) ==
  [e \in 1..MaxE |-> Quot(calc_alpha(fm, fr).n * fr[e], calc_alpha(fm, fr).d)]

\* Lines 798-800: EFr * np.sqrt(np.divide(Fm, Fr, out=zeros, where=Fr!=0)).
\* EFr has modulus squared fr[e]; the factor is real and not negative, so an
\* entry keeps its phase unless it becomes zero.  The result holds, per entry,
\* the modulus squared and whether the entry was divided.
Projection(fm, fr) ==
  LET scaled == ScaledFr(fm, fr)
  IN [e \in 1..MaxE |->
        IF scaled[e].n # 0
          THEN [divided |-> TRUE, phase |-> "kept",
                sq |-> Quot(fr[e] * fm[e] * scaled[e].d,
                            MaxOf(fm) * scaled[e].n)]
          ELSE [divided |-> FALSE, phase |-> "none", sq |-> Quot(0, 1)]]

\* One caller in an iteration of the loop: the trace is not all zero and the
\* field not zero (the error is not-a-number otherwise and the loop is not
\* entered).
ProjInit ==
  /\ ObjInit(1, MaxSide, 0)
  /\ IdleFrame
  /\ disk = NoTrace
  /\ prep = NoPrep /\ call = NoCall /\ frog = NoFrog /\ mat = NoMat
  /\ calc = NoCalc

CalcSame ==
  UNCHANGED <<objVars, frameVars, envVars, histVars, prep, call, frog, mat>>

ProjApply ==
  /\ calc = NoCalc
  /\ \E fm \in Entries(0..MaxAmp), fr \in Entries(0..MaxAmp) :
       /\ MaxOf(fm) # 0 /\ MaxOf(fr) # 0
       /\ calc' = [fn |-> "projection", Fm |-> fm, Fr |-> fr,
                   alpha |-> calc_alpha(fm, fr), EFr |-> Projection(fm, fr)]
  /\ CalcSame

CalcDrop ==
  /\ calc # NoCalc
  /\ calc' = NoCalc
  /\ CalcSame

ProjNext ==
  \/ ProjApply
  \/ CalcDrop

ProjSpec == ProjInit /\ [][ProjNext]_vars

\* --------------------------------- ePIE_fun_FROG, column by column
\* ePIE_fun_FROG(I, dt, df) called with a K x K trace I of whole numbers, no
\* observer, and a seed file of K samples.  calc holds the frame:
\*   I[f][d]   the trace, row (frequency) f and column (delay) d from 1
\*   i, iterK  the counters of the two loops; s, alpha: the permutation and
\*             the update strength drawn at the top of the pass
\*   error     as a quotient; IrPass[d]: the pass in which column d of Ir was
\*             last written, 0 while it still holds the zeros of line 946
\*   errIr     IrPass as it was when error was last computed, errAt the
\*             (i, iterK) of that computation
\*   norm      the Euclidean norm of Obj, followed exactly for K = 1
\*   step      the last column update: the column, and per position of the
\*             transform the modulus written into psi_n at line 973
\* alpha = np.abs(0.2 + np.random.randn()/20): two of its values
Alphas == {Quot(0, 1), Quot(1, 4)}
\* np.random.permutation(range(K)), columns counted from 1
Perms(K) == {q \in [1..K -> 1..K] : \A a, b \in 1..K : q[a] = q[b] => a = b}
\* The traces handed in: one level everywhere but at one entry, not all zero
ColTraces(K) ==
  {Peak(K, K, q, lo, hi) : q \in (1..K) \X (1..K), lo \in 0..MaxAmp,
                           hi \in 1..MaxAmp}
NoStep == [col |-> 0, mod |-> <<>>, supp |-> {}]
Untracked == [known |-> FALSE, q |-> Quot(0, 1)]
AbsInt(x) == IF x < 0 THEN -x ELSE x

\* Line 915: every position of the frequency axis is in the support
Fsupp(N) == {k \in 0..(N - 1) : k % 1 = 0}
\* Line 972: amp = np.fft.fftshift(I[:, s[iterK]].reshape(K, 1)), position k
\* from 0 (fftshift rolls by K//2)
amp(I, K, col) == [k \in 0..(K - 1) |-> I[((k - K \div 2) % K) + 1][col]]

\* Lines 967-990 for N = K = 1.  Obj has modulus r; temp = shift_signal(Obj)
\* is Obj times a phase factor, psi = Obj*temp has modulus r^2 and, after
\* line 973, modulus c with the same phase; Uo and Up have modulus 1/r, so
\* Corr1 and Corr2 are both alpha*(c - r^2)/r times the phase of Obj and
\* Obj + Corr1 + Corr2 has modulus |r + 2*alpha*(c - r^2)/r|.
NextModulus(r, a, c) ==
  Quot(AbsInt(a.d * r.n * r.n + 2 * a.n * (c * r.d * r.d - r.n * r.n)),
       a.d * r.d * r.n)
\* Lines 991 and 995-996 for N = K = 1: Ir = |Obj*temp| with the new Obj and
\* the temp of before the update; error = |Ir - I| / |I|
ErrorOfOne(r, rNew, c) ==
  Quot(AbsInt(r.n * rNew.n - c * r.d * rNew.d), c * r.d * rNew.d)

ColInit ==
  /\ \E mi \in 0..MaxIter, tol \in Levels : ObjInit(mi, MaxSide, tol)
  /\ IdleFrame
  /\ disk = NoTrace
  /\ prep = NoPrep /\ call = NoCall /\ frog = NoFrog /\ mat = NoMat
  /\ calc = NoCalc

\* Lines 906-956: from the call to the first loop test
ColEnter ==
  /\ calc = NoCalc
  /\ \E K \in Sides, r0 \in {Quot(1, 1), Quot(2, 1)} : \E I \in ColTraces(K) :
       calc' = [fn |-> "ePIE", pc |-> "test", K |-> K, I |-> I, i |-> 1,
                iterK |-> 0, s |-> <<>>, alpha |-> Quot(0, 1),
                error |-> Quot(InitialError, 1),
                IrPass |-> [d \in 1..K |-> 0], errIr |-> [d \in 1..K |-> 0],
                errAt |-> <<0, 0>>,
                norm |-> IF K = 1 THEN [known |-> TRUE, q |-> r0]
                                  ELSE Untracked,
                step |-> NoStep, updates |-> 0]
  /\ CalcSame

\* Line 957: while error > self.GTol and i <= self.max_iter
ColTest ==
  /\ calc.fn = "ePIE" /\ calc.pc = "test"
  /\ calc' = [calc EXCEPT !.pc =
                IF calc.error.n > GTol * calc.error.d /\ calc.i <= max_iter
                  THEN "perm" ELSE "done"]
  /\ CalcSame

\* Lines 959-963: the order of the columns and the strength of the update
ColPermute ==
  /\ calc.fn = "ePIE" /\ calc.pc = "perm"
  /\ \E q \in Perms(calc.K), a \in Alphas :
       calc' = [calc EXCEPT !.s = q, !.alpha = a, !.iterK = 0, !.pc = "col"]
  /\ CalcSame

\* Lines 966-1006: the update for column s[iterK]; the error is recomputed
\* when iterK % K == 0; after the last column i is incremented
ColUpdate ==
  /\ calc.fn = "ePIE" /\ calc.pc = "col"
  /\ LET K == calc.K
         col == calc.s[calc.iterK + 1]
         m == amp(calc.I, K, col)
         rNew == IF calc.norm.known
                   THEN [known |-> TRUE,
                         q |-> NextModulus(calc.norm.q, calc.alpha, m[0])]
                   ELSE Untracked
         written == [calc.IrPass EXCEPT ![col] = calc.i]
         recompute == calc.iterK % K = 0
         last == calc.iterK + 1 = K
     IN \E g \in Levels :
          calc' = [calc EXCEPT
            !.step = [col |-> col, mod |-> m, supp |-> Fsupp(K)],
            !.norm = rNew,
            !.updates = calc.updates + 1,
            !.IrPass = written,
            !.error = IF ~recompute THEN calc.error
                      ELSE IF calc.norm.known
                        THEN ErrorOfOne(calc.norm.q, rNew.q, m[0])
                      ELSE Quot(g, 1),
            !.errIr = IF recompute THEN written ELSE calc.errIr,
            !.errAt = IF recompute THEN <<calc.i, calc.iterK>> ELSE calc.errAt,
            !.iterK = IF last THEN 0 ELSE calc.iterK + 1,
            !.i = IF last THEN calc.i + 1 ELSE calc.i,
            !.pc = IF last THEN "test" ELSE "col"]
  /\ CalcSame

\* Line 1009: return Obj, error, Ir; the frame is gone
ColReturn ==
  /\ calc.fn = "ePIE" /\ calc.pc = "done"
  /\ calc' = NoCalc
  /\ CalcSame

ColNext ==
  \/ ColEnter
  \/ ColTest
  \/ ColPermute
  \/ ColUpdate
  \/ ColReturn

ColSpec == ColInit /\ [][ColNext]_vars

\* ------------------------------------------- FrogParams.update_crop_param
\* Python's round() of the quotient n/d, d > 0: to the nearest whole number,
\* a tie to the even one
round(n, d) ==
  LET q == n \div d
      r == n % d
  IN IF 2 * r < d THEN q
     ELSE IF 2 * r > d THEN q + 1
     ELSE IF q % 2 = 0 THEN q ELSE q + 1

\* frog.py lines 347-356 for one axis: the offset and the size handed to
\* setValue for the position pos and the size size of the region of interest
\* on a sensor of max_size pixels
CropAxis(pos, size, max_size) ==
  LET p1 == IF pos < 0 THEN 0 ELSE pos
      s2 == IF size > max_size THEN max_size ELSE size
      p2 == IF size > max_size THEN 0 ELSE p1
      s3 == IF s2 + p2 > max_size THEN max_size - p2 ELSE s2
  IN [pos |-> round(p2, 2) * 2, size |-> round(s3, 2) * 2]

\* One caller: a region of interest of whole-numbered position and size is
\* moved over a sensor of max_size[1] x max_size[2] pixels, and
\* update_crop_param is called with it.
CropInit ==
  /\ ObjInit(1, MaxSide, 0)
  /\ IdleFrame
  /\ disk = NoTrace
  /\ prep = NoPrep /\ call = NoCall /\ frog = NoFrog /\ mat = NoMat
  /\ calc = NoCalc

update_crop_param ==
  /\ calc = NoCalc
  /\ \E max_size \in ((MaxSensor - 1)..MaxSensor) \X ((MaxSensor - 1)..MaxSensor),
        pos \in (-1..(MaxSensor + 1)) \X (-1..(MaxSensor + 1)),
        size \in (0..(MaxSensor + 1)) \X (0..(MaxSensor + 1)) :
       calc' = [fn |-> "update_crop_param", max_size |-> max_size,
                pos |-> pos, size |-> size,
                Xpos |-> CropAxis(pos[1], size[1], max_size[1]).pos,
                Ypos |-> CropAxis(pos[2], size[2], max_size[2]).pos,
                Width |-> CropAxis(pos[1], size[1], max_size[1]).size,
                Height |-> CropAxis(pos[2], size[2], max_size[2]).size]
  /\ CalcSame

CropNext ==
  \/ update_crop_param
  \/ CalcDrop

CropSpec == CropInit /\ [][CropNext]_vars

\* ---------------------------------------------------------- properties
Ended == pc \in {"finish", "done"}
\* The trace of the run has a nonzero peak, as a prepared trace has
PreparedTrace == ~FmN.nan

\* The loop rule applied to the errors h[1] (before the loop), h[2], ... with
\* tolerance tol and cap cap: the run ends after exactly n iterations.
StopsAfter(h, tol, cap, n) ==
  /\ Len(h) = n + 1
  /\ n <= cap
  /\ \A j \in 0..(n - 1) : Gt(h[j + 1], Num(tol))
  /\ (n = cap \/ Le(h[n + 1], Num(tol)))

\* C1: on a prepared trace the loop runs at most max_iter iterations, goes
\* into another one only while G > GTol and the counter is below the cap, and
\* ends exactly when G <= GTol or the counter equals max_iter.
C1_StopsOnToleranceOrCap ==
  PreparedTrace =>
    /\ pc # "idle" => iteration <= max_iter
    /\ pc = "project" => Gt(G, Num(GTol)) /\ iteration < max_iter
    /\ Ended => (Le(G, Num(GTol)) \/ iteration = max_iter)

\* C2: with max_iter = 0 no projection is made, the field at the end is the
\* seed-derived field, and the run ends with the counter at the cap.
C2_ZeroCapKeepsSeed ==
  (max_iter = 0 /\ pc # "idle") =>
    /\ projections = 0
    /\ iteration = 0
    /\ pc \in {"test", "finish", "done"} => Pt = SeedField(Cols(FmN.data))
    /\ pc \notin {"project", "recentre", "remake", "emit"}
    /\ Ended => iteration = max_iter

C2_Witness ==
  /\ pc = "done" /\ max_iter = 0 /\ Gt(G, Num(GTol))
  /\ Pt = Pt0 /\ Pt.cls = "ok"

\* What the caller of retrievePhase holds when the call has returned: the
\* returned value (a result tuple, or None), and the reconstructed trace kept
\* in self.Fr
Received ==
  (IF ret = "tuple" THEN {"status", "field", "trace", "error"} ELSE {})
  \cup (IF Fr.set THEN {"trace"} ELSE {})

\* C3: when the run has ended the caller has the terminal status, the final
\* field, the final reconstructed trace and the final error.
C3_CallerReceivesResult ==
  pc = "done" => Received = {"status", "field", "trace", "error"}

\* C4: a cancellation asked for during the run is seen at the top of the next
\* iteration: the loop test does not start another iteration.
C4_CancelStopsLoop ==
  [][(cancel /\ pc = "test") => pc' # "project"]_vars

\* C5: the run works on the configuration it was started with: the number of
\* iterations and the transforms follow the snapshot cfg0, whatever a setter
\* does meanwhile.
C5_SnapshotConfiguration ==
  /\ Ended => StopsAfter(Ghist, cfg0.GTol, cfg0.max_iter, iteration)
  /\ Running => mk = <<cfg0.method[1], cfg0.method[2]>>

C9_NoNaNDownstream ==
  /\ pc \in {"test", "project", "recentre", "remake", "emit", "finish", "done"}
       => ~G.nan
  /\ Pt.cls # "nan"
  /\ ~Fr.nan

\* The last prepFROG call was given an image that is prep_size x prep_size
\* with ccddt * ccddv = 1/prep_size
Presampled ==
  /\ prep.called
  /\ Rows(prep.img) = prep.size /\ Cols(prep.img) = prep.size
  /\ SamplingIdentity(prep.ccddt, prep.invdv, prep.size)

\* C7 (as stated): on such an image prepFROG skips the low-pass filter, the
\* background subtraction and the rebinning, stores the (oriented) input as
\* it is and leaves the time step at ccddt.
C7_PresampledPassesThrough ==
  Presampled =>
    /\ prep.exc = "none"
    /\ prep.steps = <<"orient">>
    /\ Fm = Scaled(Orient(prep.img, prep.flip))
    /\ dtperpx = [ccddt |-> prep.ccddt, scaled |-> FALSE]

\* C7 (amended): on such an image prepFROG skips the rebinning only.  The
\* image is oriented, low-pass filtered and background-subtracted; the stored
\* trace has the shape of the input, is the filtered image lowered by one
\* level and cut at 0 (so its minimum is 0), and the time step is ccddt.
C7_PresampledSkipsRebinningOnly ==
  Presampled =>
    /\ prep.exc = "none"
    /\ prep.steps = <<"orient", "lowpass", "background">>
    /\ dtperpx = [ccddt |-> prep.ccddt, scaled |-> FALSE]
    /\ Rows(Fm) = prep.size /\ Cols(Fm) = prep.size
    /\ Rows(prep.filtered) = prep.size /\ Cols(prep.filtered) = prep.size
    /\ AMin(Fm) = 0
    /\ \A q \in Cells(Fm), r \in Cells(Fm) :
         LET fq == prep.filtered[q[1]][q[2]]
             fr == prep.filtered[r[1]][r[2]]
         IN /\ Fm[q[1]][q[2]] <= Unit * fq
            /\ fq <= fr => Fm[q[1]][q[2]] <= Fm[r[1]][r[2]]
            /\ (Fm[q[1]][q[2]] > 0 /\ Fm[r[1]][r[2]] > 0)
                 => Fm[q[1]][q[2]] - Fm[r[1]][r[2]] = Unit * (fq - fr)

C7_Witness ==
  /\ Presampled /\ prep.size = MaxSide
  /\ ~AllZero(Fm)
  /\ Fm # Scaled(Orient(prep.img, prep.flip))

\* C8: a trace that is all zero after the background subtraction makes
\* prepFROG fail: an exception leaves the call and no trace is stored.
C8_ZeroTraceFailsFast ==
  (prep.called /\ AllZero(BackgroundSubtract(prep.filtered)))
    => (prep.exc # "none" /\ Fm = ZeroTrace(Rows(Fm)) /\ dtperpx = DefaultDt)

\* C10: a selector value the engine does not know makes makeFROG and
\* guessPulse raise; neither returns None or estimates by another method,
\* and a run of retrievePhase is stopped before it projects.
C10_UnknownSelectorFails ==
  /\ (call.fn # "none" /\ call.domain \notin {0, 1}) => call.exc # "none"
  /\ call.fn # "none" => ~call.none
  /\ (call.fn = "guessPulse" /\ call.PowerOrSVD \notin {0, 1})
       => call.by = "none"
  /\ (pc # "idle" /\ (cfg0.method[1] \notin {0, 1}
                      \/ cfg0.method[3] \notin {0, 1}))
       => (pc = "raised" /\ projections = 0)

\* ------------------------------------------- the transforms' properties
Made == mat.fn = "makeFROG" /\ ~mat.none
Guessed == mat.fn = "guessPulse" /\ ~mat.none
\* guessPulse was handed the matrix makeFROG returned for the same domain,
\* computed without anti-aliasing
RoundTrip == Guessed /\ mat.from = <<mat.domain, 0>>
\* The signed index of the place k of a transform of N samples
Signed(k, N) == IF k <= N \div 2 THEN k ELSE k - N
Abs(x) == IF x < 0 THEN -x ELSE x
\* The entry t of the returned matrix belongs to frequency f and delay tau
\* (both mod N): in domain 0 it is component f of the transform of the
\* products P[n]*P[n-tau], in domain 1 component -tau of the inverse transform
\* of the products of the Fourier components n and f-n.
At(t, N, domain, f, tau) ==
  \/ t = ZeroT
  \/ /\ domain = 0
     /\ t.k = "fft" /\ t.i = f % N
     /\ \A n \in Ix(N) : t.col[n] \in {ZeroT, Prod(n, (n - tau) % N)}
  \/ /\ domain = 1
     /\ t.k = "ifft" /\ t.i = (-tau) % N
     /\ \A n \in Ix(N) : t.col[n] \in {ZeroT, Prod(n, (f - n) % N)}
ZeroSet(M, N) == {rc \in Ix(N) \X Ix(N) : M[rc[1]][rc[2]] = ZeroT}

\* C11: the trace makeFROG returns is, entry by entry, the squared modulus of
\* the matrix it returns with it, in both domains and with both anti-alias
\* settings.
C11_TraceIsSquaredModulus ==
  Made => \A r \in Ix(mat.N), c \in Ix(mat.N) :
            mat.F[r][c] = AbsSq(mat.EF[r][c])
C11_Witness ==
  /\ Made /\ mat.domain = 1 /\ mat.antialias = 1 /\ mat.N >= 3
  /\ mat.EF[0][1] # mat.EF[1][0]

\* C12: with anti-aliasing off, guessPulse's sequence applied to the matrix
\* makeFROG returned for the same domain gives back the outer product, entry
\* (i,j) = P[i]*P[j], for every N, and the field extracted from it is Pt up to
\* a scalar whenever the last guess has a component along it.
C12_RoundTripRestoresOuterProduct ==
  (RoundTrip /\ mat.antialias = 0) =>
     /\ mat.exc = "none"
     /\ \A i \in Ix(mat.N), j \in Ix(mat.N) : mat.outer[i][j] = Prod(i, j)
     /\ ~mat.degenerate => mat.est = "Pt"
C12_Witness ==
  /\ RoundTrip /\ mat.antialias = 0 /\ mat.domain = 1 /\ mat.N = 3
  /\ ~mat.degenerate /\ mat.est = "Pt"

\* C13: in the matrix makeFROG returns, row r holds the signed frequency
\* r - (ceil(N/2)-1) and column c the signed delay c - (ceil(N/2)-1): zero
\* frequency and zero delay sit at index ceil(N/2)-1 and both grow by one per
\* index on either side of it.
C13_ZeroBinCentred ==
  Made => \A r \in Ix(mat.N), c \in Ix(mat.N) :
            At(mat.EF[r][c], mat.N, mat.domain,
               r - ((mat.N + 1) \div 2 - 1), c - ((mat.N + 1) \div 2 - 1))
C13_Witness ==
  /\ Made /\ mat.N = 4 /\ mat.domain = 1 /\ mat.antialias = 0
  /\ mat.EF[1][1] # ZeroT /\ At(mat.EF[1][1], 4, 1, 0, 0)

\* C18 (as stated): the time-domain mask zeroes entry (i,j) exactly when
\* |j-i| is larger than ceil(N/2).
C18_MaskDeletesBeyondHalfWindow ==
  (Made /\ mat.domain = 0 /\ mat.antialias = 1) =>
     \A i \in Ix(mat.N), j \in Ix(mat.N) :
        mat.outer[i][j] = IF Abs(j - i) > (mat.N + 1) \div 2 THEN ZeroT
                          ELSE Prod(i, j)
\* C18 (amended): the time-domain mask zeroes entry (i,j) exactly when |j-i|
\* is ceil(N/2) or more, and leaves every other entry unchanged.
C18_MaskDeletesFromHalfWindow ==
  (Made /\ mat.domain = 0 /\ mat.antialias = 1) =>
     \A i \in Ix(mat.N), j \in Ix(mat.N) :
        mat.outer[i][j] = IF Abs(j - i) >= (mat.N + 1) \div 2 THEN ZeroT
                          ELSE Prod(i, j)
C18_Witness ==
  /\ Made /\ mat.domain = 0 /\ mat.antialias = 1 /\ mat.N = 4
  /\ mat.outer[0][2] = ZeroT /\ mat.outer[0][1] = Prod(0, 1)

\* C19: the frequency-domain mask zeroes entry (i,j) exactly when the signed
\* indices of i and j add up to a value outside [floor(N/2)+1-N, floor(N/2)],
\* and leaves every other entry unchanged.
C19_MaskDeletesOutOfBand ==
  (Made /\ mat.domain = 1 /\ mat.antialias = 1) =>
     \A i \in Ix(mat.N), j \in Ix(mat.N) :
        LET v == Signed(i, mat.N) + Signed(j, mat.N)
        IN mat.outer[i][j] =
             IF v < mat.N \div 2 + 1 - mat.N \/ v > mat.N \div 2 THEN ZeroT
             ELSE Prod(i, j)
C19_Witness ==
  /\ Made /\ mat.domain = 1 /\ mat.antialias = 1 /\ mat.N = 5
  /\ mat.outer[1][2] = ZeroT /\ mat.outer[3][4] = ZeroT
  /\ mat.outer[2][3] = Prod(2, 3)

\* C20: with anti-aliasing on, guessPulse zeroes the same entries of the
\* outer-product-form matrix as makeFROG does for the same domain and N.
C20_SameMaskBothWays ==
  (RoundTrip /\ mat.antialias = 1) =>
     /\ mat.exc = "none"
     /\ ZeroSet(mat.outer, mat.N) =
          ZeroSet(makeFROGMat(mat.N, mat.domain, 1).outer, mat.N)

\* C17: whenever retrievePhase calls guessPulse, the domain selector and the
\* anti-alias flag it passes are those of the makeFROG call that produced the
\* matrix it passes.
C17_GuessPulseMatchesMakeFROG ==
  [][(pc = "project" /\ projections' = projections + 1) =>
       (method[3] = mk[1] /\ method[4] = mk[2])]_vars

\* ----------------------------------------- the experiment's properties
\* C16: retrieve_phase raises 'No recorded trace in buffer!' and invokes
\* neither prepFROG nor retrievePhase whenever it is called with no data held;
\* and no data are held before the first completed measurement or load, nor
\* from the start of a measurement until it completes or a file is loaded, so
\* in particular after an aborted measurement.
C16_NoTraceNoRetrieval ==
  /\ [](frog.lastop \in {"init", "started"} => frog.data = "None")
  /\ [][(frog.last = "none" /\ frog'.last # "none" /\ frog.data = "None") =>
          /\ frog'.last = "No recorded trace in buffer!"
          /\ frog'.prepFROG = 0 /\ frog'.retrievePhase = 0]_vars
C16_Witness ==
  /\ frog.outcome = "aborted" /\ frog.lastop = "started" /\ frog.cleared
  /\ frog.last = "No recorded trace in buffer!"

\* ------------------------------------------- the two solvers' properties
\* C14: ePIE_fun_FROG never completes more than max_iter passes; a pass is
\* under way only while the error is above the tolerance and the pass count
\* below the cap, so the loop ends when the error <= tolerance or the count
\* reaches the cap; with max_iter = 0 it returns the seed it loaded after no
\* pass; and the loop is left only by returning field, error and trace.
C14_PassesCapped ==
  /\ [](pc \in {"ptest", "ppass"} => iteration - 1 <= max_iter)
  /\ [](pc = "ppass" => (Gt(G, Num(GTol)) /\ iteration - 1 < max_iter))
  /\ []((pc = "done" /\ ret = "tuple" /\ max_iter = 0) =>
          (iteration - 1 = 0 /\ Ghist = <<>> /\ Pt = Pt0))
  /\ [][(pc = "ptest" /\ pc' # "ppass") =>
          (pc' = "done" /\ ret' = "tuple" /\ UNCHANGED <<Pt, G, FrLoc>>)]_vars
C14_Witness ==
  /\ pc = "done" /\ ret = "tuple"
  /\ max_iter > 0 /\ iteration - 1 = max_iter /\ Gt(G, Num(GTol))

\* C15: no step of a run of either solver, from its call to its return,
\* changes Fm, dtperpx or seed; retrievePhase starts at iteration 0 from the
\* seed (or a fresh random field) and ePIE_fun_FROG at its first pass with the
\* initial error, both on the trace the object holds when none is passed.
C15_SolversLeaveInputs ==
  /\ [][~(pc = "idle" /\ pc' = "idle") => UNCHANGED <<Fm, dtperpx, seed>>]_vars
  /\ [][(pc = "idle" /\ pc' = "test") =>
          /\ iteration' = 0
          /\ IF seed # NoField THEN Pt' = seed
             ELSE Pt'.src = "synth" /\ Pt'.it = 0
          /\ (args'.Fm = NoTrace /\ SumAll(Fm) # 0) => FmN'.data = Fm]_vars
  /\ [][(pc = "idle" /\ pc' = "ptest") =>
          /\ iteration' = 1 /\ G' = Num(InitialError) /\ Pt'.it = 0
          /\ args'.Fm = NoTrace => FmN'.data = Fm]_vars
C15_Witness ==
  /\ Fr.set /\ prep.called /\ seed # NoField /\ ~AllZero(Fm)
  /\ pc = "test" /\ iteration = 0 /\ args.Fm = NoTrace /\ FmN.data = Fm

\* ------------------------------------------ the projection's properties
Projected == calc.fn = "projection"
Attached == args.mov = 0 /\ args.data /\ args.title
IsProgress(n) == n.ch = "progress"
Progress == SelectSeq(emitted, IsProgress)
\* C22: with an observer attached, the progress notifications of a run are
\* numbered 1, 2, ... in order; at every loop test there is exactly one per
\* iteration done and the last one carries the error the test reads, which
\* is the error computed in that iteration from the recentred field; inside
\* an iteration the notification is still to come when the error has just
\* been recomputed, and nothing else adds a progress notification.
C22_OneProgressPerIteration ==
  /\ [](Attached /\ pc # "idle" =>
          /\ \A k \in 1..Len(Progress) :
               Progress[k].it = k /\ Progress[k].G = Ghist[k + 1]
          /\ pc \in {"test", "finish", "done"} =>
               /\ Len(Progress) = iteration
               /\ iteration > 0 => Progress[iteration].G = G
          /\ pc \in {"recentre", "remake", "emit"} =>
               Len(Progress) = iteration - 1
          /\ pc = "emit" => Len(Ghist) = iteration + 1 /\ Ghist[iteration + 1] = G)
  /\ [][Attached /\ Attached' /\ emitted' # emitted /\ pc # "idle" =>
          /\ pc = "emit" /\ pc' = "test"
          /\ emitted' = Append(emitted, Note("progress", iteration, G))
          /\ FrLoc.it = iteration]_vars
C22_Witness ==
  /\ Attached /\ pc = "test" /\ iteration = 2
  /\ Len(Progress) = 2 /\ Progress[2] = Note("progress", 2, G)
  /\ Gt(G, Num(GTol))

\* --------------------------------------------- the ePIE column updates
InPie == calc.fn = "ePIE"
\* C23: the running field has unit Euclidean norm after every update; here
\* after each per-column update of ePIE_fun_FROG.
C23_UnitNormAfterUpdate ==
  InPie /\ calc.updates > 0 /\ calc.norm.known =>
    calc.norm.q.n = calc.norm.q.d

\* C24: the error tested after pass i was computed from a reconstructed
\* trace every delay column of which was written during pass i.
C24_ErrorFromFullPass ==
  InPie /\ calc.pc = "test" /\ calc.i > 1 =>
    \A d \in 1..calc.K : calc.errIr[d] = calc.i - 1

\* C26: in a column update, at every position in the support the modulus
\* written into the transformed product is the square root of the measured
\* intensity at that delay column and frequency.
C26_AmplitudeIsRootOfIntensity ==
  InPie /\ calc.step # NoStep =>
    \A k \in calc.step.supp :
      calc.step.mod[k] * calc.step.mod[k] =
        calc.I[((k - calc.K \div 2) % calc.K) + 1][calc.step.col]

\* ------------------------------------------------------- the recentring
Recentred == calc.fn = "recentre"
\* C25: the recentring keeps the samples of the field (each exactly once, so
\* the norm too), and the trace makeFROG builds from the rolled field is
\* the trace of the field as it was, in both domains and with the
\* anti-aliasing on or off.
C25_ShiftKeepsTrace ==
  Recentred =>
    /\ \A i \in Ix(calc.N) : \E j \in Ix(calc.N) : calc.Pt[j] = i
    /\ SameTrace(calc.F, calc.F0, calc.N)

\* ------------------------------------------------------ sizes and seeds
\* C27: in every run of retrievePhase on the prepared trace the field Pt
\* has as many samples as the trace has columns.
C27_FieldHasSideOfTrace ==
  pc # "idle" /\ args.Fm = NoTrace /\ Pt # NoField =>
    Pt.n = Cols(FmN.data)

\* ------------------------------------------------------ the stop request
\* C28: a step of the loop that finds the stop flag set is the last one; a
\* measurement whose loop found it set stores nothing and returns as aborted,
\* and no data are held after it (unless a file was loaded meanwhile), also
\* when its start found data held; a trace is stored only after the loop ran
\* all its steps with the flag found clear at every test.
C28_StopLeavesNoData ==
  /\ [][(frog.pc = "loop" /\ frog'.i = frog.i + 1 /\ frog.stop_measure) =>
          frog'.pc = "after"]_vars
  /\ [][(frog.pc = "after" /\ frog'.pc # "after") =>
          (frog'.pc = "idle" /\ frog'.outcome = "aborted"
             /\ frog'.data = frog.data)]_vars
  /\ []((frog.outcome = "aborted" /\ frog.lastop = "started") =>
          frog.data = "None")
  /\ [](frog.pc = "store" => frog.i = frog.steps)
  /\ [][(frog'.lastop = "stored" /\ frog.lastop # "stored") =>
          (frog.pc = "store" /\ frog.i = frog.steps /\ frog.i > 0
             /\ frog'.outcome = "finished")]_vars
C28_Witness ==
  /\ frog.pc = "idle" /\ frog.outcome = "aborted" /\ frog.cleared
  /\ frog.i > 0 /\ frog.i < frog.steps
  /\ frog.data = "None" /\ ~frog.stop_measure

\* C29: whenever measure returns, with a stored trace or aborted, the stop
\* flag is clear.
C29_FlagClearAtReturn ==
  [][(frog.pc # "idle" /\ frog'.pc = "idle"
        /\ frog'.outcome \in {"finished", "aborted"}) =>
       ~frog'.stop_measure]_vars

\* ------------------------------------------------- the crop parameters
\* C30: after update_crop_param the stored offset and size are even on each
\* axis, the offset is not negative, and offset plus size does not exceed
\* the sensor size on that axis.
C30_CropEvenAndInside ==
  calc.fn = "update_crop_param" =>
    /\ calc.Xpos % 2 = 0 /\ calc.Width % 2 = 0
    /\ calc.Ypos % 2 = 0 /\ calc.Height % 2 = 0
    /\ calc.Xpos >= 0 /\ calc.Ypos >= 0
    /\ calc.Xpos + calc.Width <= calc.max_size[1]
    /\ calc.Ypos + calc.Height <= calc.max_size[2]

====
